---- MODULE Spec2Model ----
(***************************************************************************)
(* Echogram dashboards of zarr-panel-view.                                 *)
(*                                                                         *)
(*   plot-shaders.py  Panel dashboard: channel / colormap widgets, a       *)
(*                    rasterized QuadMesh and a selection histogram        *)
(*   plot2.py         Panel dashboard drawing the echogram with px.imshow  *)
(*   app--old.py      Dash application drawing it with go.Heatmap          *)
(*                                                                         *)
(* Numbers: Sv samples are integers (dB); depths and range offsets are in  *)
(* tenths of a metre, so the transducer offset 8.6 m is 86.  Histogram     *)
(* edges are kept doubled (lo2 = 2*lo) so that the half-unit widening      *)
(* numpy applies to a degenerate range stays an integer.                   *)
(***************************************************************************)
EXTENDS Integers, Sequences, FiniteSets, TLC

VARIABLES
    data,        \* plot-shaders main(): the Dataset handed to create_controls
    ui,          \* widget values as the browser shows them
    srv,         \* channel_selector.value / colormap_selector.value on the server
    pending,     \* events sent by the browser and not yet handled by the server
    displayed,   \* the plot held by the update_plot pane (NoPlot before the first)
    streams,     \* plot id -> channel bound in that plot's selection_callback
    histogram,   \* histogram.data of the one Histogram made by create_controls
    aggRuns,     \* number of create_plot calls of this session
    outcome,     \* how the last handler ended: "none", "ok" or the exception
    lastOp,      \* the innermost function the last step reached
    lastSel,     \* the selection handed to the last update_histogram call
    gathered,    \* flat indices of the raw samples that call gathered
    before,      \* histogram.data as that call found it
    histPlot,    \* id of the plot whose selection the histogram counts (0: none)
    plots,       \* plot id -> channel that create_plot drew for that plot
    selRead,     \* last selection handled: emitting plot, channel selected for it
    grid,        \* echogram views: the T x R sample grid to draw
    screen       \* echogram views: what the last create_plot put on screen

vars == <<data, ui, srv, pending, displayed, streams, histogram, aggRuns,
          outcome, lastOp, lastSel, gathered, before, histPlot, plots,
          selRead, grid, screen>>

coordVars == <<data, ui, srv, pending, displayed, streams, histogram, aggRuns,
               outcome, lastOp, lastSel, gathered, before, histPlot,
               plots, selRead>>

viewVars == <<grid, screen>>

-----------------------------------------------------------------------------
(* Bounds of the model *)

NPings == 2

NRange == 2

MaxPending == 2

MaxRuns == 2

ViewPings == 2

ViewRange == 3

(* Program constants *)

NumBins == 50

TransducerOffset == 86

NaN == 9999

-----------------------------------------------------------------------------
(* Small helpers *)

RECURSIVE SetMin(_)
SetMin(S) ==
    LET x == CHOOSE y \in S : TRUE
    IN  IF S = {x} THEN x
        ELSE LET m == SetMin(S \ {x}) IN IF x < m THEN x ELSE m

RECURSIVE SetMax(_)
SetMax(S) ==
    LET x == CHOOSE y \in S : TRUE
    IN  IF S = {x} THEN x
        ELSE LET m == SetMax(S \ {x}) IN IF x > m THEN x ELSE m

Ok(v) == [raised |-> FALSE, error |-> "", value |-> v]

Raise(e) == [raised |-> TRUE, error |-> e, value |-> <<>>]

(* A coordinate array: ndim 1 for a dimension coordinate, ndim 0 for the   *)
(* scalar coordinate that isel(dim=int) leaves behind.                     *)
Arr1(items) == [ndim |-> 1, items |-> items]

Arr0(item) == [ndim |-> 0, items |-> <<item>>]

-----------------------------------------------------------------------------
(* The sample source: the zarr stores main() can be pointed at *)

Paths == {"default", "other"}

channel_values == <<"38kHz", "120kHz">>

available_colormaps == {"Viridis", "EK500"}

Pings == 1..NPings

Ranges == 1..NRange

(* Sv of channel c at ping t, range sample r (1-based).                    *)
StoreSv(path, c, t, r) ==
    IF path = "default"
    THEN IF c = 1
         THEN IF t = NPings /\ r = NRange THEN NaN
              ELSE -80 + 10 * ((t - 1) * NRange + (r - 1))
         ELSE -45 + 5 * ((t - 1) + 2 * (r - 1))
    ELSE IF c = 1
         THEN -70 + 3 * ((t - 1) * NRange + (r - 1))
         ELSE NaN

(* echo_range of channel c at ping t, range sample r, in tenths of a metre *)
StoreEchoRange(path, c, t, r) ==
    IF path = "default"
    THEN 2 * (r - 1)
    ELSE 2 * c * (r - 1) + (t - 1)

load_data(path) ==
    [ channel      |-> Arr1(channel_values),
      Sv           |-> [c \in DOMAIN channel_values |->
                          [t \in Pings |-> [r \in Ranges |-> StoreSv(path, c, t, r)]]],
      echo_range   |-> [c \in DOMAIN channel_values |->
                          [t \in Pings |-> [r \in Ranges |->
                              StoreEchoRange(path, c, t, r)]]],
      range_sample |-> [r \in Ranges |-> r - 1] ]

(* data.Sv.isel(channel=channel): the channel dimension is dropped and the *)
(* channel coordinate becomes a scalar.                                    *)
isel(d, channel) ==
    [ channel      |-> Arr0(d.channel.items[channel]),
      Sv           |-> d.Sv[channel],
      echo_range   |-> [c \in {1} |-> d.echo_range[channel]],
      range_sample |-> d.range_sample ]

-----------------------------------------------------------------------------
(* Depth corrector *)

(* x["channel"].values[0]: indexing a 0-d array raises IndexError          *)
First(arr) ==
    IF arr.ndim = 0 THEN Raise("IndexError") ELSE Ok(arr.items[1])

update_range_sample_with_depth(x) ==
    LET first_channel == First(x.channel)
    IN  IF first_channel.raised THEN first_channel
        ELSE LET selected_echo_range == x.echo_range[1][1]
                 depth == [r \in Ranges |->
                             selected_echo_range[r] + TransducerOffset]
             IN  Ok([x EXCEPT !.range_sample = depth])

-----------------------------------------------------------------------------
(* Binner / aggregator: create_plot of plot-shaders.py *)

NoPlot == [id |-> 0]

(* The pixel sizes the display can give the rasterized QuadMesh            *)
RasterSizes == {<<1, 1>>, <<NPings, NRange>>, <<NPings + 1, NRange>>}

(* rasterize(..., aggregator=ds.mean('Sv')): the raster cell that sample   *)
(* (t, r) is averaged into, cells numbered row by row from 0.              *)
RasterCell(t, r, w, h) ==
    (((r - 1) * h) \div NRange) * w + (((t - 1) * w) \div NPings)

Contributions(cells, w, h) ==
    {(t - 1) * NRange + (r - 1) : <<t, r>> \in
        {p \in Pings \X Ranges : RasterCell(p[1], p[2], w, h) \in cells}}

(* sv_data.values.flatten(): C order over (ping_time, range_sample)        *)
flatten(sv) ==
    [i \in 0..(NPings * NRange - 1) |-> sv[(i \div NRange) + 1][(i % NRange) + 1]]

Finite(sv) == {sv[t][r] : <<t, r>> \in Pings \X Ranges} \ {NaN}

(* np.nanmin / np.nanmax: NaN (with a warning) when every value is NaN     *)
nanmin(sv) == IF Finite(sv) = {} THEN NaN ELSE SetMin(Finite(sv))

nanmax(sv) == IF Finite(sv) = {} THEN NaN ELSE SetMax(Finite(sv))

(* io: how reading the lazily opened store ends when .values is taken      *)
create_plot(d, channel, colormap, io, size) ==
    LET sv_data == isel(d, channel)
    IN  IF io # "ok" THEN Raise(io)
        ELSE Ok([ channel      |-> channel,
                  colormap     |-> colormap,
                  clim         |-> <<nanmin(sv_data.Sv), nanmax(sv_data.Sv)>>,
                  y            |-> sv_data.range_sample,
                  invert_yaxis |-> TRUE,
                  w            |-> size[1],
                  h            |-> size[2] ])

-----------------------------------------------------------------------------
(* Selection-to-histogram resolver *)

(* np.histogram([], bins=50): 50 zero counts over the edges 0..1           *)
create_histogram ==
    [counts |-> [b \in 1..NumBins |-> 0], lo2 |-> 0, hi2 |-> 2]

(* np.histogram(values, bins=50) of the values at the indices idx of flat  *)
np_histogram(idx, flat) ==
    LET vals == {flat[i] : i \in idx}
        mn   == SetMin(vals)
        mx   == SetMax(vals)
        lo2  == IF mn = mx THEN 2 * mn - 1 ELSE 2 * mn
        hi2  == IF mn = mx THEN 2 * mx + 1 ELSE 2 * mx
        bin(v) == LET k == ((2 * v - lo2) * NumBins) \div (hi2 - lo2)
                  IN  IF k >= NumBins THEN NumBins ELSE k + 1
    IN  [ counts |-> [b \in 1..NumBins |->
                        Cardinality({i \in idx : bin(flat[i]) = b})],
          lo2 |-> lo2, hi2 |-> hi2 ]

(* update_histogram with the empty branch forgotten: the old data stays    *)
update_histogram_keeps(selection, flat, hist) ==
    IF selection # {}
    THEN IF \E i \in selection : i \notin DOMAIN flat
         THEN Raise("IndexError")
         ELSE IF NaN \in {flat[i] : i \in selection}
              THEN Raise("ValueError")
              ELSE Ok(np_histogram(selection, flat))
    ELSE Ok(hist)

Gather(selection, flat) == [i \in selection |-> flat[i]]

update_histogram(selection, flat, hist) ==
    IF selection # {}
    THEN IF \E i \in selection : i \notin DOMAIN flat
         THEN Raise("IndexError")
         ELSE IF NaN \in {flat[i] : i \in selection}
              THEN Raise("ValueError")
              ELSE Ok(np_histogram(DOMAIN Gather(selection, flat), flat))
    ELSE Ok(create_histogram)

(* reached: the innermost function the call got to.  The DataArray that   *)
(* isel returns carries channel as a scalar coordinate, so the depth       *)
(* correction raises before update_histogram is called.                    *)
selection_callback(d, channel, index, hist) ==
    LET sv_data   == isel(d, channel)
        corrected == update_range_sample_with_depth(sv_data)
    IN  IF corrected.raised
        THEN [reached |-> "selection_callback"] @@ corrected
        ELSE [reached |-> "update_histogram"] @@
                 update_histogram(index, flatten(corrected.value.Sv), hist)

-----------------------------------------------------------------------------
(* Pipeline coordinator: create_controls of plot-shaders.py *)

IndexOf(seq, x) ==
    IF \E i \in DOMAIN seq : seq[i] = x
    THEN Ok(CHOOSE i \in DOMAIN seq : seq[i] = x)
    ELSE Raise("ValueError")

update_plot(d, channel_name, colormap_name, io, size) ==
    LET channel == IndexOf(d.channel.items, channel_name)
    IN  IF channel.raised THEN channel
        ELSE IF colormap_name \notin available_colormaps THEN Raise("KeyError")
        ELSE create_plot(d, channel.value, colormap_name, io, size)

(* The pane emptied when update_plot raises *)
SwapAlways(old, res, id) ==
    IF res.raised THEN NoPlot ELSE [id |-> id] @@ res.value

(* The pane bound to update_plot shows what the function returns; a call   *)
(* that raises returns nothing.                                            *)
Swap(old, res, id) ==
    IF res.raised THEN old ELSE [id |-> id] @@ res.value

Event(kind, value, plot, index) ==
    [kind |-> kind, value |-> value, plot |-> plot, index |-> index]

Session(path) ==
    [ data      |-> update_range_sample_with_depth(load_data(path)).value,
      widgets   |-> [channel |-> channel_values[1], colormap |-> "Viridis"],
      pending   |-> <<Event("render", "", 0, {})>>,
      histogram |-> create_histogram ]

InitCoord(path) ==
    /\ data = Session(path).data
    /\ ui = Session(path).widgets
    /\ srv = Session(path).widgets
    /\ pending = Session(path).pending
    /\ displayed = NoPlot
    /\ streams = <<>>
    /\ histogram = Session(path).histogram
    /\ aggRuns = 0
    /\ outcome = "none"
    /\ lastOp = "main"
    /\ lastSel = {}
    /\ gathered = {}
    /\ before = Session(path).histogram
    /\ histPlot = 0
    /\ plots = <<>>
    /\ selRead = [plot |-> 0, channel |-> 0]

Init ==
    /\ \E path \in Paths : InitCoord(path)
    /\ grid = <<>>
    /\ screen = <<>>

(* A new page load with ?file=path runs main() again *)
main(path) ==
    /\ data' = Session(path).data
    /\ ui' = Session(path).widgets
    /\ srv' = Session(path).widgets
    /\ pending' = Session(path).pending
    /\ displayed' = NoPlot
    /\ streams' = <<>>
    /\ histogram' = Session(path).histogram
    /\ aggRuns' = 0
    /\ outcome' = "none"
    /\ lastOp' = "main"
    /\ lastSel' = {}
    /\ gathered' = {}
    /\ before' = Session(path).histogram
    /\ histPlot' = 0
    /\ plots' = <<>>
    /\ selRead' = [plot |-> 0, channel |-> 0]
    /\ UNCHANGED viewVars

(* The user picks another channel in the RadioBoxGroup *)
ChannelChanged(name) ==
    /\ name # ui.channel
    /\ Len(pending) < MaxPending
    /\ ui' = [ui EXCEPT !.channel = name]
    /\ pending' = Append(pending, Event("channel", name, 0, {}))
    /\ UNCHANGED <<data, srv, displayed, streams, histogram, aggRuns, outcome,
                   lastOp, lastSel, gathered, before, histPlot, plots,
                   selRead>>
    /\ UNCHANGED viewVars

(* The user picks another colormap in the Select *)
ColormapChanged(name) ==
    /\ name # ui.colormap
    /\ Len(pending) < MaxPending
    /\ ui' = [ui EXCEPT !.colormap = name]
    /\ pending' = Append(pending, Event("colormap", name, 0, {}))
    /\ UNCHANGED <<data, srv, displayed, streams, histogram, aggRuns, outcome,
                   lastOp, lastSel, gathered, before, histPlot, plots,
                   selRead>>
    /\ UNCHANGED viewVars

(* The selections tried: nothing, the first cell, every cell of the plot   *)
Selections(plot) ==
    IF plot = NoPlot THEN {}
    ELSE LET cells == 0..(plot.w * plot.h - 1)
         IN  {{}, {0}, cells}

(* The user box-selects cells of the plot on screen *)
SelectionChanged(index) ==
    /\ displayed # NoPlot
    /\ index \in Selections(displayed)
    /\ Len(pending) < MaxPending
    /\ pending' = Append(pending, Event("selection", "", displayed.id, index))
    /\ UNCHANGED <<data, ui, srv, displayed, streams, histogram, aggRuns,
                   outcome, lastOp, lastSel, gathered, before, histPlot,
                   plots, selRead>>
    /\ UNCHANGED viewVars

(* A colormap event that does not reach the server-side widget *)
WidgetValuesStale(e, s) ==
    [ channel  |-> IF e.kind = "channel" THEN e.value ELSE s.channel,
      colormap |-> s.colormap ]

(* The server-side widget values once event e has set its widget *)
WidgetValues(e, s) ==
    [ channel  |-> IF e.kind = "channel" THEN e.value ELSE s.channel,
      colormap |-> IF e.kind = "colormap" THEN e.value ELSE s.colormap ]

(* The server handles a widget event: the widget's value is set and the    *)
(* function that depends on it, update_plot, is called with both values.   *)
HandleWidget(io, size) ==
    /\ pending # <<>>
    /\ Head(pending).kind \in {"render", "channel", "colormap"}
    /\ aggRuns < MaxRuns
    /\ LET e    == Head(pending)
           now  == WidgetValues(e, srv)
           id   == aggRuns + 1
           res  == update_plot(data, now.channel, now.colormap, io, size)
       IN  /\ srv' = now
           /\ displayed' = Swap(displayed, res, id)
           /\ streams' = IF res.raised THEN streams
                         ELSE [p \in DOMAIN streams \cup {id} |->
                                 IF p = id THEN res.value.channel
                                 ELSE streams[p]]
           /\ plots' = IF res.raised THEN plots
                       ELSE [p \in DOMAIN plots \cup {id} |->
                               IF p = id THEN displayed'.channel ELSE plots[p]]
           /\ aggRuns' = id
           /\ outcome' = IF res.raised THEN res.error ELSE "ok"
    /\ pending' = Tail(pending)
    /\ lastOp' = "create_plot"
    /\ UNCHANGED <<data, ui, histogram, lastSel, gathered, before, histPlot,
                   selRead>>
    /\ UNCHANGED viewVars

(* selection_callback reading the channel from the widget when it runs     *)
WidgetChannel(plot) == IndexOf(channel_values, srv.channel).value

(* The variable channel of the update_plot call that made the plot, which  *)
(* the plot's selection_callback closes over.                              *)
ClosureChannel(plot) == streams[plot]

(* What a call of update_histogram leaves behind *)
HistogramWritten(res, plot, index) ==
    /\ histogram' = IF res.raised THEN histogram ELSE res.value
    /\ histPlot' = IF res.raised THEN histPlot
                   ELSE IF index = {} THEN 0 ELSE plot
    /\ gathered' = IF res.raised \/ index = {} THEN {}
                   ELSE DOMAIN Gather(index,
                                      flatten(data.Sv[ClosureChannel(plot)]))
    /\ lastSel' = index
    /\ before' = histogram
    /\ lastOp' = "update_histogram"

(* The server handles a selection event: the watcher of the stream of the  *)
(* plot the selection was made on, its selection_callback, is called.      *)
HandleSelection ==
    /\ pending # <<>>
    /\ Head(pending).kind = "selection"
    /\ LET e   == Head(pending)
           res == selection_callback(data, ClosureChannel(e.plot), e.index,
                                     histogram)
       IN  /\ outcome' = IF res.raised THEN res.error ELSE "ok"
           /\ selRead' = [plot |-> e.plot, channel |-> ClosureChannel(e.plot)]
           /\ IF res.reached = "selection_callback"
              THEN /\ lastOp' = "selection_callback"
                   /\ UNCHANGED <<histogram, histPlot, gathered, lastSel, before>>
              ELSE HistogramWritten(res, e.plot, e.index)
    /\ pending' = Tail(pending)
    /\ UNCHANGED <<data, ui, srv, displayed, streams, aggRuns, plots>>
    /\ UNCHANGED viewVars

(* update_histogram called as selection_callback calls it (lines 86, 88),  *)
(* with a selection of the plot on screen and the raw values of its        *)
(* channel.                                                                *)
CallUpdateHistogram(index) ==
    /\ displayed # NoPlot
    /\ index \in Selections(displayed)
    /\ LET channel == ClosureChannel(displayed.id)
           sv_data == flatten(isel(data, channel).Sv)
           res     == update_histogram(index, sv_data, histogram)
       IN  /\ outcome' = IF res.raised THEN res.error ELSE "ok"
           /\ selRead' = [plot |-> displayed.id, channel |-> channel]
           /\ HistogramWritten(res, displayed.id, index)
    /\ UNCHANGED <<data, ui, srv, pending, displayed, streams, aggRuns, plots>>
    /\ UNCHANGED viewVars

Next ==
    \/ \E path \in Paths : main(path)
    \/ \E name \in { channel_values[i] : i \in DOMAIN channel_values } :
          ChannelChanged(name)
    \/ \E name \in available_colormaps : ColormapChanged(name)
    \/ \E index \in Selections(displayed) : SelectionChanged(index)
    \/ \E io \in {"ok", "IOError"}, size \in RasterSizes : HandleWidget(io, size)
    \/ HandleSelection

Spec == Init /\ [][Next]_vars

(* The functions of create_controls driven directly: update_plot through   *)
(* the widgets, update_histogram by direct calls.                          *)
NextUnit ==
    \/ \E path \in Paths : main(path)
    \/ \E name \in { channel_values[i] : i \in DOMAIN channel_values } :
          ChannelChanged(name)
    \/ \E name \in available_colormaps : ColormapChanged(name)
    \/ \E io \in {"ok", "IOError"}, size \in RasterSizes : HandleWidget(io, size)
    \/ \E index \in Selections(displayed) : CallUpdateHistogram(index)

SpecUnit == Init /\ [][NextUnit]_vars

-----------------------------------------------------------------------------
(* The three create_plot variants as drawings of one sample grid.          *)
(* A matrix is a sequence of rows; an image on screen is the matrix of its *)
(* rows from the top of the screen down, each row from left to right.      *)

transpose(m) == [j \in DOMAIN m[1] |-> [i \in DOMAIN m |-> m[i][j]]]

flipud(m) == [i \in DOMAIN m |-> m[Len(m) + 1 - i]]

MatrixValues(m) == {m[i][j] : <<i, j>> \in (DOMAIN m) \X (DOMAIN m[1])}

(* app--old.py: the ek500 table *)
rgb ==
    << <<159, 159, 159>>, <<95, 95, 95>>, <<0, 0, 255>>, <<0, 0, 127>>,
       <<0, 191, 0>>, <<0, 127, 0>>, <<255, 255, 0>>, <<255, 127, 0>>,
       <<255, 0, 191>>, <<255, 0, 0>>, <<166, 83, 60>> >>

_create_cmap(colors, under, over) ==
    [colors |-> colors, under |-> under, over |-> over]

cmap == _create_cmap(rgb, <<255, 255, 255>>, <<120, 60, 40>>)

(* process_data_with_cupy: cp.flipud reverses axis 0 *)
process_data_with_cupy(sv_values) == flipud(sv_values)

(* The colorscale handed to go.Heatmap: anchor i of rgb at (i - 1) / 10    *)
colorscale == [i \in DOMAIN rgb |-> [at |-> i - 1, of |-> Len(rgb) - 1, rgb |-> rgb[i]]]

(* go.Heatmap without zmin/zmax: the colour axis spans the data (widened   *)
(* by a half each way when the data is constant) and a value is coloured   *)
(* by linear interpolation between the two anchors around it.              *)
HeatmapColor(v, z, scale) ==
    LET mn   == SetMin(MatrixValues(z))
        mx   == SetMax(MatrixValues(z))
        lo2  == IF mn = mx THEN 2 * mn - 1 ELSE 2 * mn
        hi2  == IF mn = mx THEN 2 * mx + 1 ELSE 2 * mx
        n    == Len(scale) - 1
        num  == (2 * v - lo2) * n
        k    == num \div (hi2 - lo2)
        rest == num % (hi2 - lo2)
        a    == scale[k + 1].rgb
        b    == scale[IF k + 2 > Len(scale) THEN Len(scale) ELSE k + 2].rgb
    IN  [c \in 1..3 |-> a[c] + ((b[c] - a[c]) * rest) \div (hi2 - lo2)]

(* go.Heatmap(z, x, y): z[i][j] is drawn at y position i, x position j,    *)
(* with y growing upward.                                                  *)
Heatmap(z, scale) ==
    [ image  |-> flipud(z),
      colors |-> flipud([i \in DOMAIN z |-> [j \in DOMAIN z[i] |->
                            HeatmapColor(z[i][j], z, scale)]]) ]

(* app--old.py create_plot: sv (ping_time x range_sample) flipped and      *)
(* drawn as a Heatmap with the rgb colorscale.                             *)
create_plot_old(sv) ==
    LET sv_values == process_data_with_cupy(sv)
    IN  [variant |-> "app--old"] @@ Heatmap(sv_values, colorscale)

(* px.imshow(img, origin='lower'): row 0 of img is drawn at the bottom     *)
imshow(img, origin) ==
    [ image  |-> IF origin = "lower" THEN flipud(img) ELSE img,
      colors |-> <<>> ]

(* plot2.py create_plot *)
create_plot_imshow(sv) ==
    LET img_array == flipud(transpose(sv))
    IN  [variant |-> "plot2"] @@ imshow(img_array, "lower")

(* hv.QuadMesh over (ping_time, range_sample) with kdims x = ping_time,    *)
(* y = range_sample; invert_yaxis puts the smallest y at the top.          *)
QuadMesh(sv, invert_yaxis) ==
    [ image  |-> IF invert_yaxis THEN transpose(sv) ELSE flipud(transpose(sv)),
      colors |-> <<>> ]

(* plot-shaders.py create_plot, as a drawing *)
create_plot_quadmesh(sv) ==
    [variant |-> "plot-shaders"] @@ QuadMesh(sv, TRUE)

ViewValues == {-80, -52, -30}

Grids == [1..ViewPings -> [1..ViewRange -> ViewValues]]

InitView ==
    /\ InitCoord("default")
    /\ grid \in Grids
    /\ screen = <<>>

DrawOld ==
    /\ screen' = create_plot_old(grid)
    /\ UNCHANGED <<grid>>
    /\ UNCHANGED coordVars

DrawImshow ==
    /\ screen' = create_plot_imshow(grid)
    /\ UNCHANGED <<grid>>
    /\ UNCHANGED coordVars

DrawQuadMesh ==
    /\ screen' = create_plot_quadmesh(grid)
    /\ UNCHANGED <<grid>>
    /\ UNCHANGED coordVars

NextView == DrawOld \/ DrawImshow \/ DrawQuadMesh

SpecView == InitView /\ [][NextView]_vars

-----------------------------------------------------------------------------
(* Steps of the coordinator, for the properties below *)

WidgetHandled ==
    /\ pending # <<>>
    /\ Head(pending).kind \in {"render", "channel", "colormap"}
    /\ pending' = Tail(pending)

SelectionHandled ==
    /\ pending # <<>>
    /\ Head(pending).kind = "selection"
    /\ pending' = Tail(pending)

SourceChanged == lastOp' = "main" /\ aggRuns' = 0 /\ displayed' = NoPlot

ZeroCounts(h) ==
    /\ DOMAIN h.counts = 1..50
    /\ \A b \in DOMAIN h.counts : h.counts[b] = 0

-----------------------------------------------------------------------------
(* C1: every selection event handled while a plot is displayed recomputes  *)
(* the histogram (update_histogram runs), does not run create_plot and     *)
(* leaves the displayed raster alone; create_plot runs only when a channel *)
(* change, a colormap change or a source change is handled.                *)
C1_SelectionRecomputesHistogramOnly ==
    [][ /\ SelectionHandled =>
            /\ lastOp' = "update_histogram"
            /\ aggRuns' = aggRuns
            /\ displayed' = displayed
        /\ aggRuns' > aggRuns => WidgetHandled
      ]_vars

(* C2: every successful update_plot shows a new raster, and the histogram  *)
(* then holds no counts of a selection made on a raster other than the one *)
(* displayed.                                                              *)
C2_AggregationInvalidatesHistogram ==
    [][ (WidgetHandled /\ outcome' = "ok") =>
            /\ displayed'.id # displayed.id
            /\ histPlot' \in {0, displayed'.id}
      ]_vars

C4_StaleResultDiscarded ==
    [][ (displayed' # displayed /\ displayed' # NoPlot) =>
            /\ channel_values[displayed'.channel] = ui'.channel
            /\ displayed'.colormap = ui'.colormap
      ]_vars

(* C4 as amended: no result is discarded, but the events are handled one   *)
(* at a time in the order issued, so when a request is handled             *)
(* successfully and no widget event is left pending, the plot on display   *)
(* is that of the most recently issued request.                            *)
C4_LastRequestWins ==
    [][ (/\ WidgetHandled
         /\ outcome' = "ok"
         /\ \A i \in DOMAIN pending' : pending'[i].kind = "selection") =>
            /\ displayed'.id = aggRuns'
            /\ channel_values[displayed'.channel] = ui'.channel
            /\ displayed'.colormap = ui'.colormap
      ]_vars

C4_Witness ==
    /\ pending = <<>>
    /\ lastOp = "create_plot"
    /\ outcome = "ok"
    /\ displayed.id = 2
    /\ displayed.channel = 2
    /\ ui.channel = "120kHz"

(* C5: create_histogram, and update_histogram called with an empty         *)
(* selection, leave a histogram of exactly 50 bins, every count 0,         *)
(* whatever the histogram held before.                                     *)
C5_EmptySelectionZeroed ==
    (lastOp = "main" \/ (lastOp = "update_histogram" /\ lastSel = {})) =>
        (outcome \in {"none", "ok"} /\ ZeroCounts(histogram))

C5_Witness ==
    /\ lastOp = "update_histogram"
    /\ lastSel = {}
    /\ ~ZeroCounts(before)
    /\ ZeroCounts(histogram)

(* C6: the values update_histogram gathers for a selection of raster cells *)
(* are exactly the raw samples that were aggregated into those cells, NaN  *)
(* samples left out, each once; a selection of the whole raster gathers    *)
(* the whole sample grid.                                                  *)
C6_GathersContributingSamples ==
    (lastOp = "update_histogram" /\ lastSel # {} /\ displayed # NoPlot) =>
        LET flat == flatten(data.Sv[displayed.channel])
        IN  /\ outcome = "ok"
            /\ gathered = {i \in Contributions(lastSel, displayed.w, displayed.h) :
                             flat[i] # NaN}

(* C7: the depth axis of the displayed plot is, at every ping t and range  *)
(* index r, the offset profile of the plot's channel at that ping plus the *)
(* 8.6 m instrument offset.                                                *)
C7_DepthOfRequestedChannelAndPing ==
    displayed # NoPlot =>
        \A t \in Pings, r \in Ranges :
            displayed.y[r] = data.echo_range[displayed.channel][t][r] + 86

(* C8: a channel whose samples are all NaN is never displayed: its         *)
(* aggregation fails and no raster is produced.                            *)
C8_AllNaNIsNoData ==
    /\ displayed # NoPlot => Finite(data.Sv[displayed.channel]) # {}
    /\ displayed # NoPlot => NaN \notin {displayed.clim[1], displayed.clim[2]}

(* C9: in the echogram app--old.py draws, every sample below -75 has the   *)
(* table's under colour, every sample above -35 its over colour, and every *)
(* sample in between one of the 11 anchor colours.                         *)
C9_ColourClamping ==
    (screen # <<>> /\ screen.variant = "app--old") =>
        \A i \in DOMAIN screen.image : \A j \in DOMAIN screen.image[i] :
            LET v == screen.image[i][j]
                c == screen.colors[i][j]
            IN  /\ v < -75 => c = cmap.under
                /\ v > -35 => c = cmap.over
                /\ (v >= -75 /\ v <= -35) =>
                       \E a \in DOMAIN cmap.colors : c = cmap.colors[a]

(* C10: in every variant the sample at (ping t, range index r) is drawn in *)
(* column t and in row r counted from the top of the screen.               *)
C10_SameFlipConvention ==
    screen # <<>> =>
        /\ DOMAIN screen.image = 1..ViewRange
        /\ \A r \in 1..ViewRange :
              /\ DOMAIN screen.image[r] = 1..ViewPings
              /\ \A t \in 1..ViewPings : screen.image[r][t] = grid[t][r]

(* C11: the selection_callback of a plot selects its raw values            *)
(* (data.Sv.isel, line 86) from the channel that plot was drawn for,       *)
(* whichever channel the widget shows and whichever plot is on display     *)
(* when the selection is handled.                                          *)
C11_CallbackBoundToPlotChannel ==
    selRead.plot # 0 =>
        /\ selRead.plot \in DOMAIN plots
        /\ selRead.channel = plots[selRead.plot]

C11_Witness ==
    /\ selRead.plot = 1
    /\ displayed.id = 2
    /\ displayed.channel # plots[1]
    /\ channel_values[selRead.channel] # srv.channel
    /\ selRead.channel = plots[1]

====
